---- MODULE Spec2Model ----
(***************************************************************************)
(* Model of assistent_bot.py: the validated fields (Phone, Birthday), the  *)
(* Record, the AddressBook with get_upcoming_birthdays, and the command    *)
(* handlers wrapped by input_error.                                        *)
(*                                                                         *)
(* A Python str is a sequence of characters; a character is a one-element  *)
(* token ("7", "a", "."), a non-ASCII character is named by its code       *)
(* point ("U+0663").  A date is a record [year, month, day].  An optional  *)
(* value is <<>> (None) or <<v>>.  The AddressBook's dict is the sequence  *)
(* of its (key, record) entries in insertion order.                        *)
(***************************************************************************)
EXTENDS Integers, Sequences, FiniteSets, TLC

VARIABLES book, prev, cmd, args, today, result

vars == <<book, prev, cmd, args, today, result>>

(***************************** bounds **************************************)
\* most phones the whole book holds in the explored runs
MaxPhones == 2
\* longest raw string handed to the Phone constructor in SpecPhone
MaxLen == 11

(***************************** characters **********************************)
AsciiDigits == {"0", "1", "2", "3", "4", "5", "6", "7", "8", "9"}

\* Characters outside ASCII for which str.isdigit() is true:
\* ARABIC-INDIC DIGIT THREE (Nd) and SUPERSCRIPT TWO (No, Numeric_Type=Digit).
UnicodeDigits == {"U+0663", "U+00B2"}

DigitValue(c) ==
    CASE c = "0" -> 0 [] c = "1" -> 1 [] c = "2" -> 2 [] c = "3" -> 3
      [] c = "4" -> 4 [] c = "5" -> 5 [] c = "6" -> 6 [] c = "7" -> 7
      [] c = "8" -> 8 [] c = "9" -> 9

DigitChar(n) ==
    CASE n = 0 -> "0" [] n = 1 -> "1" [] n = 2 -> "2" [] n = 3 -> "3"
      [] n = 4 -> "4" [] n = 5 -> "5" [] n = 6 -> "6" [] n = 7 -> "7"
      [] n = 8 -> "8" [] n = 9 -> "9"

\* code point order of the characters a rendered date is made of
Ord(c) == IF c = "-" THEN 45 ELSE 48 + DigitValue(c)

\* str.isdigit(): non-empty and every character a (Unicode) digit
isdigit(s) ==
    /\ Len(s) > 0
    /\ \A i \in 1..Len(s) : s[i] \in AsciiDigits \cup UnicodeDigits

(***************************** outcomes ************************************)
\* What a call produces: a value, or a raised exception with its message.
Ok(v) == [exc |-> "none", msg |-> "", val |-> v]
Raise(e, m) == [exc |-> e, msg |-> m, val |-> <<>>]

(***************************** Phone ***************************************)
PhoneLen == 10

PhoneError == "Phone must contain exactly 10 digits"

\* Phone._validate: TRUE when no ValueError is raised
Phone_validate(value) == ~(~isdigit(value) \/ Len(value) # PhoneLen)

\* Phone.__init__: the stored value is the raw string
Phone(value) ==
    IF Phone_validate(value) THEN Ok(value) ELSE Raise("ValueError", PhoneError)

(***************************** datetime.date *******************************)
\* The operations of datetime.date the program uses, as CPython computes them.
is_leap(y) == y % 4 = 0 /\ (y % 100 # 0 \/ y % 400 = 0)

days_in_month(y, m) ==
    IF m = 2 THEN (IF is_leap(y) THEN 29 ELSE 28)
    ELSE IF m \in {4, 6, 9, 11} THEN 30 ELSE 31

MinYear == 1
MaxYear == 9999

\* date(y, m, d) raises ValueError unless this holds
valid_date(y, m, d) ==
    /\ y \in MinYear..MaxYear
    /\ m \in 1..12
    /\ d \in 1..days_in_month(y, m)

Date(y, m, d) == [year |-> y, month |-> m, day |-> d]

days_before_year(y) ==
    LET y1 == y - 1 IN y1 * 365 + (y1 \div 4) - (y1 \div 100) + (y1 \div 400)

RECURSIVE days_before_month(_, _)
days_before_month(y, m) ==
    IF m = 1 THEN 0 ELSE days_before_month(y, m - 1) + days_in_month(y, m - 1)

\* date.toordinal(): 0001-01-01 is day 1
toordinal(d) == days_before_year(d.year) + days_before_month(d.year, d.month) + d.day

\* date.weekday(): Monday is 0, Saturday 5, Sunday 6
weekday(d) == (toordinal(d) + 6) % 7

\* date < date
date_lt(a, b) == toordinal(a) < toordinal(b)

\* date.replace(year=y): ValueError when the month/day does not exist in y
replace_year(d, y) ==
    IF valid_date(y, d.month, d.day) THEN Ok(Date(y, d.month, d.day))
    ELSE Raise("ValueError", "day is out of range for month")

next_day(d) ==
    IF d.day < days_in_month(d.year, d.month) THEN Date(d.year, d.month, d.day + 1)
    ELSE IF d.month < 12 THEN Date(d.year, d.month + 1, 1)
    ELSE Date(d.year + 1, 1, 1)

\* date + timedelta(days=n), n >= 0
RECURSIVE add_days(_, _)
add_days(d, n) == IF n = 0 THEN d ELSE add_days(next_day(d), n - 1)

\* zero-padded decimal rendering of n in w characters
RECURSIVE pad(_, _)
pad(n, w) == IF w = 0 THEN <<>> ELSE pad(n \div 10, w - 1) \o <<DigitChar(n % 10)>>

\* date.strftime("%Y-%m-%d") (years of four digits)
strftime_iso(d) == pad(d.year, 4) \o <<"-">> \o pad(d.month, 2) \o <<"-">> \o pad(d.day, 2)

\* date.strftime("%d.%m.%Y") (years of four digits)
strftime_dmy(d) == pad(d.day, 2) \o <<".">> \o pad(d.month, 2) \o <<".">> \o pad(d.year, 4)

(***************************** Birthday ************************************)
DateError == "Invalid date format. Use DD.MM.YYYY"

RECURSIVE number(_)
number(f) ==
    IF Len(f) = 0 THEN 0
    ELSE number(SubSeq(f, 1, Len(f) - 1)) * 10
         + (IF f[Len(f)] = " " THEN 0 ELSE DigitValue(f[Len(f)]))

NonZero == AsciiDigits \ {"0"}

\* the text strptime accepts for %d: 3[0-1] | [1-2]\d | 0[1-9] | [1-9] | " "[1-9]
day_field(f) ==
    \/ Len(f) = 1 /\ f[1] \in NonZero
    \/ Len(f) = 2 /\ f[1] = "3" /\ f[2] \in {"0", "1"}
    \/ Len(f) = 2 /\ f[1] \in {"1", "2"} /\ f[2] \in AsciiDigits
    \/ Len(f) = 2 /\ f[1] \in {"0", " "} /\ f[2] \in NonZero

\* the text strptime accepts for %m: 1[0-2] | 0[1-9] | [1-9]
month_field(f) ==
    \/ Len(f) = 1 /\ f[1] \in NonZero
    \/ Len(f) = 2 /\ f[1] = "1" /\ f[2] \in {"0", "1", "2"}
    \/ Len(f) = 2 /\ f[1] = "0" /\ f[2] \in NonZero

\* the text strptime accepts for %Y: \d\d\d\d
year_field(f) == Len(f) = 4 /\ \A i \in 1..4 : f[i] \in AsciiDigits

\* datetime.strptime(value, "%d.%m.%Y").date() over ASCII text: the whole
\* string must be day "." month "." year, and the date must exist.
strptime_dmy(value) ==
    LET dots == {i \in 1..Len(value) : value[i] = "."} IN
    IF Cardinality(dots) # 2 THEN Raise("ValueError", "does not match format")
    ELSE
      LET p1 == CHOOSE i \in dots : \A j \in dots : i <= j
          p2 == CHOOSE i \in dots : \A j \in dots : j <= i
          df == SubSeq(value, 1, p1 - 1)
          mf == SubSeq(value, p1 + 1, p2 - 1)
          yf == SubSeq(value, p2 + 1, Len(value))
      IN IF ~(day_field(df) /\ month_field(mf) /\ year_field(yf))
         THEN Raise("ValueError", "does not match format")
         ELSE IF ~valid_date(number(yf), number(mf), number(df))
         THEN Raise("ValueError", "day is out of range for month")
         ELSE Ok(Date(number(yf), number(mf), number(df)))

\* Birthday.__init__: any ValueError of the parse becomes DateError;
\* the stored value is the parsed date
Birthday(value) ==
    LET dt == strptime_dmy(value) IN
    IF dt.exc = "ValueError" THEN Raise("ValueError", DateError) ELSE Ok(dt.val)

\* Birthday.__str__
Birthday_str(b) == strftime_dmy(b)

(***************************** Record **************************************)
\* Record.__init__
Record(name) == [name |-> name, phones |-> <<>>, birthday |-> <<>>]

\* Record.add_phone: the new Phone is built (and validated) before the append
Record_add_phone(record, phone) ==
    LET phone_obj == Phone(phone) IN
    IF phone_obj.exc # "none" THEN phone_obj
    ELSE Ok([record EXCEPT !.phones = Append(@, phone_obj.val)])

\* Record.find_phone: the position of the first phone equal to `phone`, 0 for None
Record_find_phone(record, phone) ==
    LET hits == {i \in 1..Len(record.phones) : record.phones[i] = phone} IN
    IF hits = {} THEN 0 ELSE CHOOSE i \in hits : \A j \in hits : i <= j

\* Record.edit_phone changed to edit the last matching phone
Record_edit_phone_last(record, old_phone, new_phone) ==
    LET hits == {i \in 1..Len(record.phones) : record.phones[i] = old_phone} IN
    IF hits = {} THEN Raise("ValueError", "Old phone not found")
    ELSE LET new_phone_obj == Phone(new_phone)
             k == CHOOSE i \in hits : \A j \in hits : j <= i
         IN IF new_phone_obj.exc # "none" THEN new_phone_obj
            ELSE Ok([record EXCEPT !.phones[k] = new_phone_obj.val])

\* Record.edit_phone changed to assign the raw string without building a Phone
Record_edit_phone_unvalidated(record, old_phone, new_phone) ==
    LET phone_obj == Record_find_phone(record, old_phone) IN
    IF phone_obj = 0 THEN Raise("ValueError", "Old phone not found")
    ELSE Ok([record EXCEPT !.phones[phone_obj] = new_phone])

\* Record.edit_phone
Record_edit_phone(record, old_phone, new_phone) ==
    LET phone_obj == Record_find_phone(record, old_phone) IN
    IF phone_obj = 0 THEN Raise("ValueError", "Old phone not found")
    ELSE LET new_phone_obj == Phone(new_phone) IN
         IF new_phone_obj.exc # "none" THEN new_phone_obj
         ELSE Ok([record EXCEPT !.phones[phone_obj] = new_phone_obj.val])

\* Record.add_birthday
Record_add_birthday(record, birthday_str) ==
    LET b == Birthday(birthday_str) IN
    IF b.exc # "none" THEN b ELSE Ok([record EXCEPT !.birthday = <<b.val>>])

\* sep.join(parts)
RECURSIVE join(_, _)
join(sep, parts) ==
    IF Len(parts) = 0 THEN <<>>
    ELSE IF Len(parts) = 1 THEN parts[1]
    ELSE parts[1] \o sep \o join(sep, Tail(parts))

\* Record.__str__
Record_str(record) ==
    LET phones_str == IF Len(record.phones) > 0 THEN join(<<";", " ">>, record.phones)
                      ELSE <<"no phones">>
        birthday_str == IF record.birthday # <<>>
                        THEN <<", birthday: ">> \o Birthday_str(record.birthday[1])
                        ELSE <<>>
    IN <<"Contact name: ">> \o record.name \o <<", phones: ">> \o phones_str \o birthday_str

(***************************** AddressBook *********************************)
\* position of the entry stored under key `name`, 0 when there is none
index_of(b, name) ==
    LET hits == {i \in 1..Len(b) : b[i].key = name} IN
    IF hits = {} THEN 0 ELSE CHOOSE i \in hits : TRUE

\* AddressBook.add_record: data[record.name.value] = record
AddressBook_add_record(b, record) ==
    LET i == index_of(b, record.name) IN
    IF i = 0 THEN Append(b, [key |-> record.name, rec |-> record])
    ELSE [b EXCEPT ![i].rec = record]

\* AddressBook.find: <<>> for None
AddressBook_find(b, name) ==
    LET i == index_of(b, name) IN IF i = 0 THEN <<>> ELSE <<b[i].rec>>

\* AddressBook.delete
AddressBook_delete(b, name) ==
    LET i == index_of(b, name) IN
    IF i = 0 THEN b ELSE SubSeq(b, 1, i - 1) \o SubSeq(b, i + 1, Len(b))

\* a method that mutated the record found under `name` in place
store(b, name, record) == [b EXCEPT ![index_of(b, name)].rec = record]

WindowDays == 7
Saturday == 5
Sunday == 6

\* one pass of the loop body of get_upcoming_birthdays: <<>> or <<entry>>
upcoming_entry(record, t) ==
    LET bday == record.birthday[1]
        first == replace_year(bday, t.year)
    IN IF first.exc # "none" THEN first
       ELSE LET this_year_bday ==
                    IF date_lt(first.val, t) THEN replace_year(first.val, t.year + 1)
                    ELSE first
            IN IF this_year_bday.exc # "none" THEN this_year_bday
               ELSE LET delta_days == toordinal(this_year_bday.val) - toordinal(t)
                        d == this_year_bday.val
                        congrat_date ==
                            IF weekday(d) = Saturday THEN add_days(d, 2)
                            ELSE IF weekday(d) = Sunday THEN add_days(d, 1)
                            ELSE d
                    IN IF 0 <= delta_days /\ delta_days < WindowDays
                       THEN Ok(<<[name |-> record.name,
                                  congratulation_date |-> strftime_iso(congrat_date)]>>)
                       ELSE Ok(<<>>)

\* AddressBook.get_upcoming_birthdays from entry i on, `upcoming` collected so far
RECURSIVE upcoming_loop(_, _, _, _)
upcoming_loop(b, t, i, upcoming) ==
    IF i > Len(b) THEN Ok(upcoming)
    ELSE IF b[i].rec.birthday = <<>> THEN upcoming_loop(b, t, i + 1, upcoming)
    ELSE LET e == upcoming_entry(b[i].rec, t) IN
         IF e.exc # "none" THEN e
         ELSE upcoming_loop(b, t, i + 1, upcoming \o e.val)

\* AddressBook.get_upcoming_birthdays, date.today() being t
get_upcoming_birthdays(b, t) == upcoming_loop(b, t, 1, <<>>)

(***************************** command handlers ****************************)
\* What running a handler body leaves behind: the book as mutated so far,
\* and the value returned or the exception raised.
H(b, ret) == [book |-> b, ret |-> ret]

\* add_contact changed to build and store a new Record on every call
add_contact_fresh(a, b) ==
    IF Len(a) < 2 THEN H(b, Raise("ValueError", "Give me name and phone please."))
    ELSE LET name == a[1]
             phone == a[2]
             found == AddressBook_find(b, name)
             b1 == AddressBook_add_record(b, Record(name))
             message == IF found = <<>> THEN "Contact added." ELSE "Contact updated."
         IN IF phone # <<>>
            THEN LET r == Record_add_phone(Record(name), phone) IN
                 IF r.exc # "none" THEN H(b1, r)
                 ELSE H(store(b1, name, r.val), Ok(<<message>>))
            ELSE H(b1, Ok(<<message>>))

\* add_contact before the decorator
add_contact(a, b) ==
    IF Len(a) < 2 THEN H(b, Raise("ValueError", "Give me name and phone please."))
    ELSE LET name == a[1]
             phone == a[2]
             found == AddressBook_find(b, name)
             b1 == IF found = <<>> THEN AddressBook_add_record(b, Record(name)) ELSE b
             record == IF found = <<>> THEN Record(name) ELSE found[1]
             message == IF found = <<>> THEN "Contact added." ELSE "Contact updated."
         IN IF phone # <<>>
            THEN LET r == Record_add_phone(record, phone) IN
                 IF r.exc # "none" THEN H(b1, r)
                 ELSE H(store(b1, name, r.val), Ok(<<message>>))
            ELSE H(b1, Ok(<<message>>))

SeveralPhones == "Contact has several phones, use: change <name> <old_phone> <new_phone>"

\* change_contact changed to add the new phone in the two-argument form
\* whatever the record holds
change_contact_append(a, b) ==
    IF Len(a) = 2 THEN
        LET found == AddressBook_find(b, a[1]) IN
        IF found = <<>> THEN H(b, Raise("AttributeError", "phones"))
        ELSE LET r == Record_add_phone(found[1], a[2]) IN
             IF r.exc # "none" THEN H(b, r)
             ELSE H(store(b, a[1], r.val), Ok(<<"Contact updated.">>))
    ELSE IF Len(a) = 3 THEN
        LET found == AddressBook_find(b, a[1]) IN
        IF found = <<>> THEN H(b, Raise("AttributeError", "edit_phone"))
        ELSE LET r == Record_edit_phone(found[1], a[2], a[3]) IN
             IF r.exc # "none" THEN H(b, r)
             ELSE H(store(b, a[1], r.val), Ok(<<"Contact updated.">>))
    ELSE H(b, Raise("ValueError", "Give me name and phone(s) please."))

\* change_contact before the decorator
change_contact(a, b) ==
    IF Len(a) = 2 THEN
        LET name == a[1]
            new_phone == a[2]
            found == AddressBook_find(b, name)
        IN IF found = <<>> THEN H(b, Raise("AttributeError", "phones"))
           ELSE LET record == found[1] IN
                IF Len(record.phones) = 0
                THEN LET r == Record_add_phone(record, new_phone) IN
                     IF r.exc # "none" THEN H(b, r)
                     ELSE H(store(b, name, r.val), Ok(<<"Contact updated.">>))
                ELSE IF Len(record.phones) > 1
                THEN H(b, Raise("ValueError", SeveralPhones))
                ELSE LET old_phone == record.phones[1]
                         r == Record_edit_phone(record, old_phone, new_phone)
                     IN IF r.exc # "none" THEN H(b, r)
                        ELSE H(store(b, name, r.val), Ok(<<"Contact updated.">>))
    ELSE IF Len(a) = 3 THEN
        LET name == a[1]
            old_phone == a[2]
            new_phone == a[3]
            found == AddressBook_find(b, name)
        IN IF found = <<>> THEN H(b, Raise("AttributeError", "edit_phone"))
           ELSE LET r == Record_edit_phone(found[1], old_phone, new_phone) IN
                IF r.exc # "none" THEN H(b, r)
                ELSE H(store(b, name, r.val), Ok(<<"Contact updated.">>))
    ELSE H(b, Raise("ValueError", "Give me name and phone(s) please."))

\* show_phone before the decorator
show_phone(a, b) ==
    IF Len(a) = 0 THEN H(b, Raise("IndexError", "list index out of range"))
    ELSE LET found == AddressBook_find(b, a[1]) IN
         IF found = <<>> THEN H(b, Raise("AttributeError", "phones"))
         ELSE IF Len(found[1].phones) = 0 THEN H(b, Ok(<<"No phones.">>))
         ELSE H(b, Ok(join(<<";", " ">>, found[1].phones)))

\* show_all before the decorator
show_all(b) ==
    IF Len(b) = 0 THEN H(b, Ok(<<"No contacts.">>))
    ELSE H(b, Ok(join(<<"\n">>, [i \in 1..Len(b) |-> Record_str(b[i].rec)])))

\* add_birthday before the decorator
add_birthday(a, b) ==
    IF Len(a) < 2
    THEN H(b, Raise("ValueError", "Give me name and birthday in format DD.MM.YYYY"))
    ELSE LET name == a[1]
             bday_str == a[2]
             found == AddressBook_find(b, name)
             b1 == IF found = <<>> THEN AddressBook_add_record(b, Record(name)) ELSE b
             record == IF found = <<>> THEN Record(name) ELSE found[1]
             r == Record_add_birthday(record, bday_str)
         IN IF r.exc # "none" THEN H(b1, r)
            ELSE H(store(b1, name, r.val), Ok(<<"Birthday added.">>))

\* show_birthday before the decorator
show_birthday(a, b) ==
    IF Len(a) = 0 THEN H(b, Raise("ValueError", "Enter contact name."))
    ELSE LET found == AddressBook_find(b, a[1]) IN
         IF found = <<>> THEN H(b, Raise("AttributeError", "birthday"))
         ELSE IF found[1].birthday = <<>> THEN H(b, Ok(<<"No birthday set.">>))
         ELSE H(b, Ok(Birthday_str(found[1].birthday[1])))

\* str < str and str <= str by code point, over rendered dates
RECURSIVE str_lt(_, _)
str_lt(x, y) ==
    IF Len(y) = 0 THEN FALSE
    ELSE IF Len(x) = 0 THEN TRUE
    ELSE IF Ord(x[1]) # Ord(y[1]) THEN Ord(x[1]) < Ord(y[1])
    ELSE str_lt(Tail(x), Tail(y))

\* sorted(items, key=lambda x: x["congratulation_date"]): stable, ascending
RECURSIVE sorted_by_date(_)
sorted_by_date(items) ==
    IF Len(items) <= 1 THEN items
    ELSE LET front == sorted_by_date(SubSeq(items, 1, Len(items) - 1))
             x == items[Len(items)]
             k == Cardinality({i \in 1..Len(front) :
                      ~str_lt(x.congratulation_date, front[i].congratulation_date)})
         IN SubSeq(front, 1, k) \o <<x>> \o SubSeq(front, k + 1, Len(front))

\* the line f'{item["congratulation_date"]}: {item["name"]}'
birthday_line(item) == item.congratulation_date \o <<":", " ">> \o item.name

\* birthdays before the decorator, date.today() being t
birthdays(a, b, t) ==
    LET upcoming == get_upcoming_birthdays(b, t) IN
    IF upcoming.exc # "none" THEN H(b, upcoming)
    ELSE IF Len(upcoming.val) = 0 THEN H(b, Ok(<<"No upcoming birthdays.">>))
    ELSE LET items == sorted_by_date(upcoming.val) IN
         H(b, Ok(join(<<"\n">>, [i \in 1..Len(items) |-> birthday_line(items[i])])))

\* delete_contact changed to skip the access to record.name
delete_contact_unchecked(a, b) ==
    IF Len(a) = 0 THEN H(b, Raise("ValueError", "Enter user name."))
    ELSE H(AddressBook_delete(b, a[1]), Ok(<<"Contact deleted.">>))

\* delete_contact before the decorator
delete_contact(a, b) ==
    IF Len(a) = 0 THEN H(b, Raise("ValueError", "Enter user name."))
    ELSE LET found == AddressBook_find(b, a[1]) IN
         IF found = <<>> THEN H(b, Raise("AttributeError", "name"))
         ELSE H(AddressBook_delete(b, a[1]), Ok(<<"Contact deleted.">>))

\* input_error without its `except AttributeError` clause
input_error_no_attribute(h) ==
    [book |-> h.book,
     ret |-> CASE h.ret.exc = "KeyError" -> Ok(<<"Contact not found.">>)
               [] h.ret.exc = "IndexError" -> Ok(<<"Enter arguments.">>)
               [] h.ret.exc = "ValueError" ->
                    Ok(<<IF h.ret.msg # "" THEN h.ret.msg
                         ELSE "Give me name and phone please.">>)
               [] OTHER -> h.ret]

\* the decorator input_error applied to what a handler body did
input_error(h) ==
    [book |-> h.book,
     ret |-> CASE h.ret.exc = "KeyError" -> Ok(<<"Contact not found.">>)
               [] h.ret.exc = "IndexError" -> Ok(<<"Enter arguments.">>)
               [] h.ret.exc = "AttributeError" -> Ok(<<"Contact not found.">>)
               [] h.ret.exc = "ValueError" ->
                    Ok(<<IF h.ret.msg # "" THEN h.ret.msg
                         ELSE "Give me name and phone please.">>)
               [] OTHER -> h.ret]

(***************************** inputs **************************************)
Ann == <<"A", "n", "n">>
Bob == <<"B", "o", "b">>
Names == {Ann, Bob}

P1 == <<"1", "2", "3", "4", "5", "6", "7", "8", "9", "0">>
P2 == <<"0", "9", "8", "7", "6", "5", "4", "3", "2", "1">>
\* ten ARABIC-INDIC DIGIT THREE characters
PU == [i \in 1..PhoneLen |-> "U+0663"]
PShort == <<"1", "2", "3", "4", "5", "6", "7", "8", "9">>
Empty == <<>>
PhoneArgs == {P1, P2, PU, PShort, Empty}

D12 == <<"1", "2", ".", "0", "6", ".", "1", "9", "9", "0">>
D15 == <<"1", "5", ".", "0", "6", ".", "1", "9", "9", "0">>
DLeap == <<"2", "9", ".", "0", "2", ".", "2", "0", "2", "4">>
DBad == <<"3", "1", ".", "0", "2", ".", "2", "0", "2", "4">>
DateArgs == {D12, D15, DLeap, DBad}

Extra == <<"x">>

\* the dates date.today() returns in the explored runs
Todays ==
    { Date(2024, 6, 10), Date(2024, 6, 9), Date(2023, 6, 10), Date(2025, 6, 9),
      Date(2024, 2, 26), Date(2024, 6, 13), Date(2024, 6, 15), Date(2024, 6, 16) }

NameLists == {<<>>} \cup {<<n>> : n \in Names} \cup {<<n, Extra>> : n \in Names}

AddArgs ==
    {<<>>} \cup {<<n>> : n \in Names}
           \cup {<<n, p>> : n \in Names, p \in PhoneArgs}
           \cup {<<n, p, Extra>> : n \in Names, p \in PhoneArgs}

\* change has no branch of its own for an empty phone
ChangePhones == PhoneArgs \ {Empty}

ChangeArgs ==
    {<<>>} \cup {<<n>> : n \in Names}
           \cup {<<n, p>> : n \in Names, p \in ChangePhones}
           \cup {<<n, p, q>> : n \in Names, p \in ChangePhones, q \in ChangePhones}
           \cup {<<n, P1, P2, Extra>> : n \in Names}

BirthdayArgs ==
    {<<>>} \cup {<<n>> : n \in Names}
           \cup {<<n, d>> : n \in Names, d \in DateArgs}
           \cup {<<n, d, Extra>> : n \in Names, d \in DateArgs}

(***************************** the command loop ****************************)
RECURSIVE phone_count(_)
phone_count(b) ==
    IF Len(b) = 0 THEN 0 ELSE Len(b[1].rec.phones) + phone_count(Tail(b))

bounded(b) == phone_count(b) <= MaxPhones

\* main(): at the input() prompt, one command is read and handled; `prev` keeps
\* the book the command started from and `result` the string it returned
Step(c, a, t, h) ==
    /\ cmd = "prompt"
    /\ bounded(h.book)
    /\ book' = h.book
    /\ prev' = book
    /\ cmd' = c
    /\ args' = a
    /\ today' = t
    /\ result' = h.ret

Add == \E a \in AddArgs : Step("add", a, <<>>, input_error(add_contact(a, book)))

Change == \E a \in ChangeArgs : Step("change", a, <<>>, input_error(change_contact(a, book)))

ShowPhone == \E a \in NameLists : Step("phone", a, <<>>, input_error(show_phone(a, book)))

ShowAll == Step("all", <<>>, <<>>, input_error(show_all(book)))

Delete == \E a \in NameLists : Step("delete", a, <<>>, input_error(delete_contact(a, book)))

AddBirthday ==
    \E a \in BirthdayArgs : Step("add-birthday", a, <<>>, input_error(add_birthday(a, book)))

ShowBirthday ==
    \E a \in NameLists : Step("show-birthday", a, <<>>, input_error(show_birthday(a, book)))

Birthdays ==
    \E a \in {<<>>, <<Extra>>}, t \in Todays :
        Step("birthdays", a, <<t>>, input_error(birthdays(a, book, t)))

\* main(): the result is printed and the loop returns to the input() prompt
Loop ==
    /\ cmd # "prompt"
    /\ cmd' = "prompt"
    /\ args' = <<>>
    /\ today' = <<>>
    /\ result' = Ok(<<>>)
    /\ prev' = book
    /\ UNCHANGED book

Init ==
    /\ book = <<>>
    /\ prev = <<>>
    /\ cmd = "prompt"
    /\ args = <<>>
    /\ today = <<>>
    /\ result = Ok(<<>>)

Next ==
    \/ Add
    \/ Change
    \/ ShowPhone
    \/ ShowAll
    \/ Delete
    \/ AddBirthday
    \/ ShowBirthday
    \/ Birthdays
    \/ Loop

Spec == Init /\ [][Next]_vars

(***************************** Phone over raw strings **********************)
PhoneAlphabet == {"a", " ", "+", "U+0663", "U+00B2"}

digits(n) == [i \in 1..n |-> DigitChar(i % 10)]

PhoneInputs ==
    UNION { {digits(n)} \cup {[i \in 1..n |-> "U+0663"]}
            \cup {[digits(n) EXCEPT ![k] = c] : k \in 1..n, c \in PhoneAlphabet}
          : n \in 0..MaxLen }

InitPhone ==
    /\ book = <<>>
    /\ prev = <<>>
    /\ cmd = "input"
    /\ args \in {<<s>> : s \in PhoneInputs}
    /\ today = <<>>
    /\ result = Ok(<<>>)

Construct ==
    /\ cmd = "input"
    /\ cmd' = "Phone"
    /\ result' = Phone(args[1])
    /\ UNCHANGED <<book, prev, args, today>>

NextPhone == Construct

SpecPhone == InitPhone /\ [][NextPhone]_vars

(***************************** properties **********************************)
Commands ==
    {"add", "change", "phone", "all", "delete", "add-birthday", "show-birthday",
     "birthdays"}

Keys(b) == {b[i].key : i \in 1..Len(b)}

Lookup(b, n) == b[CHOOSE i \in 1..Len(b) : b[i].key = n].rec

\* the last command returned exactly the message m
Said(m) == result = Ok(<<m>>)

\* a string that phone validation accepts: ten characters, each a digit
Accepted(p) ==
    Len(p) = PhoneLen /\ \A i \in 1..Len(p) : p[i] \in AsciiDigits \cup UnicodeDigits

\* a string of exactly ten ASCII digits
AsciiPhone(p) == Len(p) = PhoneLen /\ \A i \in 1..Len(p) : p[i] \in AsciiDigits

Feb29(d) == d.month = 2 /\ d.day = 29

\* C1: every command handler, for every argument list and every reachable
\* book, returns a result string; no exception escapes input_error.
C1_NoExceptionEscapes == cmd \in Commands => result.exc = "none"

\* C1 witness: a three-argument change on a missing contact, whose
\* AttributeError came back as a message.
C1_Witness ==
    /\ cmd = "change"
    /\ Len(args) = 3
    /\ args[1] \notin Keys(prev)
    /\ Said("Contact not found.")

\* C2: Phone construction succeeds exactly for strings of ten ASCII digits,
\* storing the raw string, and fails with PhoneError for every other string.
C2_PhoneAsciiOnly ==
    cmd = "Phone" =>
        IF AsciiPhone(args[1]) THEN result = Ok(args[1])
        ELSE result = Raise("ValueError", PhoneError)

\* C3: for every today and every record with a birthday other than 29
\* February, get_upcoming_birthdays emits an entry for the record exactly when
\* 0 <= delta < 7 (candidate = the birthday in today's year, or in the next
\* year when that is before today), and the emitted date is the candidate
\* moved off a weekend: never a Saturday or Sunday, within today .. today + 8.
C3_EntryIffInWindow ==
    cmd = "birthdays" =>
        LET t == today[1]
            up == get_upcoming_birthdays(prev, t)
            emitted == IF up.exc = "none" THEN up.val ELSE <<>>
        IN \A i \in 1..Len(prev) :
            LET record == prev[i].rec IN
            (record.birthday # <<>> /\ ~Feb29(record.birthday[1])) =>
                LET bday == record.birthday[1]
                    this_year == Date(t.year, bday.month, bday.day)
                    candidate == IF toordinal(this_year) < toordinal(t)
                                 THEN Date(t.year + 1, bday.month, bday.day)
                                 ELSE this_year
                    delta == toordinal(candidate) - toordinal(t)
                    shifted == IF weekday(candidate) = 5 THEN add_days(candidate, 2)
                               ELSE IF weekday(candidate) = 6 THEN add_days(candidate, 1)
                               ELSE candidate
                    mine == {j \in 1..Len(emitted) : emitted[j].name = record.name}
                IN /\ (mine # {}) <=> (0 <= delta /\ delta < 7)
                   /\ \A j \in mine :
                        /\ emitted[j].congratulation_date = strftime_iso(shifted)
                        /\ weekday(shifted) \notin {5, 6}
                        /\ toordinal(shifted) - toordinal(t) \in 0..8

\* the records of b whose birthday's month and day fall on one of the seven
\* days starting at t
InWindow(b, t) ==
    {i \in 1..Len(b) :
        /\ b[i].rec.birthday # <<>>
        /\ \E k \in 0..6 :
             /\ add_days(t, k).month = b[i].rec.birthday[1].month
             /\ add_days(t, k).day = b[i].rec.birthday[1].day}

\* the date on which record i of b, in the window, is congratulated
Congratulation(b, t, i) ==
    LET k == CHOOSE k \in 0..6 :
                 /\ add_days(t, k).month = b[i].rec.birthday[1].month
                 /\ add_days(t, k).day = b[i].rec.birthday[1].day
        occurrence == add_days(t, k)
    IN IF weekday(occurrence) = 5 THEN add_days(occurrence, 2)
       ELSE IF weekday(occurrence) = 6 THEN add_days(occurrence, 1)
       ELSE occurrence

\* C4: for every reachable book and every today, birthdays returns "No
\* upcoming birthdays." exactly when no record's birthday falls in the
\* seven-day window, and otherwise one line "{date}: {name}" per record in the
\* window, ascending by date; a record born on 29 February changes nothing
\* for the other records.
C4_BirthdaysOutput ==
    cmd = "birthdays" =>
        LET t == today[1]
            W == InWindow(prev, t)
            n == Cardinality(W)
        IN /\ result.exc = "none"
           /\ (W = {}) <=> Said("No upcoming birthdays.")
           /\ W # {} =>
                \E f \in [1..n -> W] :
                    /\ \A x, y \in 1..n : x # y => f[x] # f[y]
                    /\ \A x, y \in 1..n :
                         x < y => toordinal(Congratulation(prev, t, f[x]))
                                    <= toordinal(Congratulation(prev, t, f[y]))
                    /\ result.val =
                         join(<<"\n">>,
                              [j \in 1..n |->
                                  strftime_iso(Congratulation(prev, t, f[j]))
                                      \o <<":", " ">> \o prev[f[j]].rec.name])

\* C5: add with at least two arguments and a valid phone returns "Contact
\* added." exactly when the name had no record and "Contact updated."
\* otherwise; afterwards the record has its previous phones followed by the
\* new phone, the same birthday, and every other record is unchanged.
C5_AddAppends ==
    (cmd = "add" /\ Len(args) >= 2 /\ Accepted(args[2])) =>
        LET n == args[1]
            old == IF n \in Keys(prev) THEN Lookup(prev, n)
                   ELSE [name |-> n, phones |-> <<>>, birthday |-> <<>>]
        IN /\ (n \notin Keys(prev)) => Said("Contact added.")
           /\ (n \in Keys(prev)) => Said("Contact updated.")
           /\ Keys(book) = Keys(prev) \cup {n}
           /\ Lookup(book, n).phones = old.phones \o <<args[2]>>
           /\ Lookup(book, n).birthday = old.birthday
           /\ \A m \in Keys(prev) \ {n} : Lookup(book, m) = Lookup(prev, m)

\* C5 witness: a second add for Ann with a different valid phone; Ann holds
\* both phones in the order given.
C5_Witness ==
    /\ cmd = "add"
    /\ args = <<Ann, P2>>
    /\ Said("Contact updated.")
    /\ Lookup(book, Ann).phones = <<P1, P2>>

\* C6 as stated: two-argument change on an existing contact makes the phone
\* list [new_phone] when the record has no phone or one phone, and fails with
\* the several-phones message, changing nothing, when it has more; any
\* argument count other than two or three fails without changing the book.
C6_ChangeTwoArgs ==
    cmd = "change" =>
        /\ (Len(args) = 2 /\ args[1] \in Keys(prev)) =>
              LET old == Lookup(prev, args[1]).phones
                  new == Lookup(book, args[1]).phones
              IN /\ Len(old) = 0 => new = <<args[2]>>
                 /\ Len(old) = 1 => new = <<args[2]>>
                 /\ Len(old) > 1 => (Said(SeveralPhones) /\ new = old)
        /\ Len(args) \notin {2, 3} =>
              (Said("Give me name and phone(s) please.") /\ book = prev)

\* C6 amended: as C6, the first two cases for a new_phone that passes phone
\* validation; with a new_phone that fails it, and at most one phone in the
\* record, the command returns the validation message and the phone list is
\* unchanged.
C6_ChangeTwoArgsValidated ==
    cmd = "change" =>
        /\ (Len(args) = 2 /\ args[1] \in Keys(prev)) =>
              LET old == Lookup(prev, args[1]).phones
                  new == Lookup(book, args[1]).phones
              IN /\ (Len(old) <= 1 /\ Accepted(args[2])) =>
                      (Said("Contact updated.") /\ new = <<args[2]>>)
                 /\ (Len(old) <= 1 /\ ~Accepted(args[2])) =>
                      (Said(PhoneError) /\ new = old)
                 /\ Len(old) > 1 => (Said(SeveralPhones) /\ new = old)
        /\ Len(args) \notin {2, 3} =>
              (Said("Give me name and phone(s) please.") /\ book = prev)

\* C6 witness: a two-argument change replaced the only phone of a contact.
C6_Witness ==
    /\ cmd = "change"
    /\ Len(args) = 2
    /\ args[1] \in Keys(prev)
    /\ Lookup(prev, args[1]).phones = <<P1>>
    /\ Lookup(book, args[1]).phones = <<P2>>

\* C7: edit_phone(old, new) either fails leaving the phone list as it was
\* ("Old phone not found" when old is absent, the validation failure when old
\* is present and new is invalid), or succeeds and changes only the first
\* position holding old, keeping the length and every other position.
C7_EditPhone ==
    (cmd = "change" /\ Len(args) = 3 /\ args[1] \in Keys(prev)) =>
        LET old == Lookup(prev, args[1]).phones
            new == Lookup(book, args[1]).phones
            hits == {i \in 1..Len(old) : old[i] = args[2]}
        IN IF hits = {} THEN Said("Old phone not found") /\ new = old
           ELSE IF ~Accepted(args[3]) THEN Said(PhoneError) /\ new = old
           ELSE /\ Said("Contact updated.")
                /\ Len(new) = Len(old)
                /\ \A i \in 1..Len(old) :
                     new[i] = IF i \in hits /\ \A j \in hits : i <= j
                              THEN args[3] ELSE old[i]

\* C7 witness: the old phone occurs twice and only its first occurrence was
\* edited.
C7_Witness ==
    /\ cmd = "change"
    /\ Len(args) = 3
    /\ args[1] \in Keys(prev)
    /\ Lookup(prev, args[1]).phones = <<P1, P1>>
    /\ Lookup(book, args[1]).phones = <<P2, P1>>

\* the command names a contact: change with two or three arguments, phone,
\* delete and show-birthday with a first argument
Refers ==
    \/ cmd = "change" /\ Len(args) \in {2, 3}
    \/ cmd \in {"phone", "delete", "show-birthday"} /\ Len(args) >= 1

\* C8: a command that names a contact the book does not hold returns exactly
\* "Contact not found." and leaves the book unchanged; delete of an existing
\* name removes exactly that record and returns "Contact deleted.".
C8_ContactNotFound ==
    /\ (Refers /\ args[1] \notin Keys(prev)) =>
          (Said("Contact not found.") /\ book = prev)
    /\ (cmd = "delete" /\ Len(args) >= 1 /\ args[1] \in Keys(prev)) =>
          /\ Said("Contact deleted.")
          /\ book = SelectSeq(prev, LAMBDA e : e.key # args[1])

\* C8 witness: delete of a name the non-empty book does not hold.
C8_Witness ==
    /\ cmd = "delete"
    /\ Len(args) >= 1
    /\ Len(prev) >= 1
    /\ args[1] \notin Keys(prev)
    /\ Said("Contact not found.")

\* C9: when add returns the phone validation message, or add-birthday the
\* date validation message, the book is the same as before the command.
C9_ErrorLeavesBook ==
    ((cmd = "add" /\ Said(PhoneError)) \/ (cmd = "add-birthday" /\ Said(DateError)))
        => book = prev

\* C10: after any sequence of commands from the empty book, every stored
\* phone is a string phone validation accepts, and every key of the book is
\* the name of the record stored under it.
C10_StoredPhonesValidated ==
    \A i \in 1..Len(book) :
        /\ book[i].key = book[i].rec.name
        /\ \A j \in 1..Len(book[i].rec.phones) : Accepted(book[i].rec.phones[j])

\* C10 witness: a change asked to put an invalid phone in place of a stored
\* one, and the stored phones are still there.
C10_Witness ==
    /\ cmd = "change"
    /\ Len(args) = 3
    /\ args[1] \in Keys(prev)
    /\ args[2] \in {Lookup(prev, args[1]).phones[j] :
                        j \in 1..Len(Lookup(prev, args[1]).phones)}
    /\ ~Accepted(args[3])
    /\ Len(Lookup(book, args[1]).phones) >= 1

====
